---- MODULE Spec2Model ----
(***************************************************************************)
(* A model of pypi-fund.py: discovery of funding links in the metadata of  *)
(* Python packages.  Strings are sequences of one-character strings, so    *)
(* that normalisation, splitting, trimming and substring tests are         *)
(* computed character by character as the code computes them.              *)
(***************************************************************************)
EXTENDS Naturals, Sequences, FiniteSets

VARIABLES
    package_names,  \* args.packages: the names given on the command line
    use_remote,     \* args.remote
    requests,       \* "module" | "None": whether `import requests` succeeded
    dists,          \* the installed distributions, in discovery order
    pc,             \* position of main() / gather_funding_info()
    idx,            \* index of the package (or distribution) being processed
    results,        \* gather_funding_info's `results` dictionary
    origin,         \* history: per key, where each entry of results came from
    fetchLog,       \* history: the calls of query_pypi_project_urls so far
    pypi_urls,      \* the mapping the last of these calls returned
    printed,        \* the format main() printed in ("nothing" before)
    output,         \* what main() prints, as the list of its lines
    call,           \* a single function applied on its own: name and argument
    ret             \* the value that function returned (not done before)

vars == <<package_names, use_remote, requests, dists, pc, idx, results,
          origin, fetchLog, pypi_urls, printed, output, call, ret>>

mainVars == <<package_names, use_remote, requests, dists, pc, idx,
              results, origin, fetchLog, pypi_urls, printed, output>>

-----------------------------------------------------------------------------
(* Strings *)

\* A string literal as the sequence of its characters.
Chars(s) == [i \in 1..Len(s) |-> SubSeq(s, i, i)]

Upper == Chars("ABCDEFGHIJKLMNOPQRSTUVWXYZ")
Lower == Chars("abcdefghijklmnopqrstuvwxyz")
Digits == Chars("0123456789")

\* The characters of the model in code-point order (for sorted()).
AsciiOrder == <<"\t">> \o Chars(" #&*,-./") \o Digits \o Chars(":=?") \o Upper
              \o Chars("_") \o Lower \o Chars("{|}")

Range(s) == {s[i] : i \in 1..Len(s)}

UpperChars == Range(Upper)
AlnumChars == Range(Upper) \cup Range(Lower) \cup Range(Digits)

Ord(c) == CHOOSE i \in 1..Len(AsciiOrder) : AsciiOrder[i] = c

\* str.lower() on one character.
LowerChar(c) ==
    IF c \in UpperChars
    THEN Lower[CHOOSE i \in 1..Len(Upper) : Upper[i] = c]
    ELSE c

\* str.lower()
StrLower(s) == [i \in 1..Len(s) |-> LowerChar(s[i])]

\* The character class [A-Za-z0-9].
IsAlnum(c) == c \in AlnumChars

\* Python's `sub in s` for strings.
StrContains(s, sub) ==
    \E k \in 0..Len(s) :
        /\ k + Len(sub) <= Len(s)
        /\ \A j \in 1..Len(sub) : s[k + j] = sub[j]

\* The characters str.strip() removes.
Whitespace == {" ", "\t"}

\* str.strip()
StrStrip(s) ==
    LET keep == {i \in 1..Len(s) : s[i] \notin Whitespace}
    IN  IF keep = {} THEN <<>>
        ELSE LET lo == CHOOSE i \in keep : \A j \in keep : i <= j
                 hi == CHOOSE i \in keep : \A j \in keep : j <= i
             IN  SubSeq(s, lo, hi)

\* Python's string comparison s < t (code-point order).
StrLess(s, t) ==
    \E k \in 1..(Len(t)) :
        /\ \A j \in 1..(k - 1) : j <= Len(s) /\ s[j] = t[j]
        /\ k - 1 <= Len(s)
        /\ (k > Len(s) \/ Ord(s[k]) < Ord(t[k]))

-----------------------------------------------------------------------------
(* normalise_label and the funding test *)

StrFund == Chars("fund")
StrSponsor == Chars("sponsor")

FUNDING_ALIASES ==
    {Chars("funding"), Chars("sponsor"), Chars("donate"), Chars("donation")}

\* The normalisation without its .lower().
NormaliseKeepCase(label) ==
    SelectSeq(label, IsAlnum)

\* re.sub(r"[^A-Za-z0-9]", "", label).lower()
normalise_label(label) ==
    StrLower(SelectSeq(label, IsAlnum))

\* The test of lines 110-112 (extract_funding_urls_from_dist).
LabelFilterLocal(label) ==
    LET norm == normalise_label(label)
    IN  \/ norm \in FUNDING_ALIASES
        \/ StrContains(norm, StrFund)
        \/ StrContains(norm, StrSponsor)

\* The test of lines 184-186 (named package not installed, remote fallback).
LabelFilterFallback(lbl) ==
    LET norm == normalise_label(lbl)
    IN  \/ norm \in FUNDING_ALIASES
        \/ StrContains(norm, StrFund)
        \/ StrContains(norm, StrSponsor)

\* The test of lines 196-198 (named package, remote supplement).
LabelFilterSupplement(lbl) ==
    LET norm == normalise_label(lbl)
    IN  \/ norm \in FUNDING_ALIASES
        \/ StrContains(norm, StrFund)
        \/ StrContains(norm, StrSponsor)

\* The test of lines 217-219 (scan of all distributions, remote lookup).
LabelFilterScan(lbl) ==
    LET norm == normalise_label(lbl)
    IN  \/ norm \in FUNDING_ALIASES
        \/ StrContains(norm, StrFund)
        \/ StrContains(norm, StrSponsor)

-----------------------------------------------------------------------------
(* extract_funding_urls_from_dist *)

GenericLink == Chars("Generic Link")

\* The index of the first "," of a string that holds one.
FirstComma(s) == CHOOSE i \in 1..Len(s) : s[i] = "," /\ \A j \in 1..(i - 1) : s[j] # ","

\* re.search(r"fund|sponsor", url, re.IGNORECASE)
BareUrlFilter(url) ==
    \/ StrContains(StrLower(url), StrFund)
    \/ StrContains(StrLower(url), StrSponsor)

\* The index of the last "," of a string that holds one.
LastComma(s) == CHOOSE i \in 1..Len(s) : s[i] = "," /\ \A j \in (i + 1)..Len(s) : s[j] # ","

\* The body of the loop with the entry split at its last comma.
ExtractEntryLastComma(url_entry) ==
    IF "," \in Range(url_entry)
    THEN LET c     == LastComma(url_entry)
             label == StrStrip(SubSeq(url_entry, 1, c - 1))
             url   == StrStrip(SubSeq(url_entry, c + 1, Len(url_entry)))
         IN  IF LabelFilterLocal(label) THEN << <<label, url>> >> ELSE <<>>
    ELSE LET url == StrStrip(url_entry)
         IN  IF BareUrlFilter(url) THEN << <<GenericLink, url>> >> ELSE <<>>

\* The body of the loop of lines 103-120 for one entry: the list of entries it
\* appends (none or one).
ExtractEntry(url_entry) ==
    IF "," \in Range(url_entry)
    THEN LET c     == FirstComma(url_entry)
             label == StrStrip(SubSeq(url_entry, 1, c - 1))
             url   == StrStrip(SubSeq(url_entry, c + 1, Len(url_entry)))
         IN  IF LabelFilterLocal(label) THEN << <<label, url>> >> ELSE <<>>
    ELSE LET url == StrStrip(url_entry)
         IN  IF BareUrlFilter(url) THEN << <<GenericLink, url>> >> ELSE <<>>

\* The loop of lines 103-120 from entry k on, funding_entries being the list
\* built so far.
RECURSIVE ExtractLoop(_, _, _)
ExtractLoop(project_urls, k, funding_entries) ==
    IF k > Len(project_urls) THEN funding_entries
    ELSE ExtractLoop(project_urls, k + 1,
                     funding_entries \o ExtractEntry(project_urls[k]))

\* Lines 99-102: dist.metadata.get_all("Project-URL", []) or [], with [] when
\* reading raises.
ReadProjectUrls(dist) ==
    IF dist.broken # "no" THEN <<>> ELSE dist.project_urls

extract_funding_urls_from_dist(dist) ==
    ExtractLoop(ReadProjectUrls(dist), 1, <<>>)

-----------------------------------------------------------------------------
(* query_pypi_project_urls *)

\* bool(v) of a decoded JSON value.
Truthy(v) ==
    CASE v.t = "string" -> v.s # <<>>
      [] v.t = "number" -> v.n # 0
      [] v.t = "null"   -> FALSE
      [] v.t = "array"  -> v.len # 0
      [] v.t = "object" -> v.members # <<>>

\* str(v) of a truthy decoded JSON string or one-digit number.
Str(v) ==
    CASE v.t = "string" -> v.s
      [] v.t = "number" -> <<Digits[v.n + 1]>>

\* {str(k): str(v) for k, v in project_urls.items() if k and v}  (line 149)
RECURSIVE ItemsKept(_)
ItemsKept(members) ==
    IF members = <<>> THEN <<>>
    ELSE LET k == Head(members)[1]
             v == Head(members)[2]
         IN  (IF k # <<>> /\ Truthy(v) THEN << <<k, Str(v)>> >> ELSE <<>>)
             \o ItemsKept(Tail(members))

\* data.get("info", {}).get("project_urls", {}) or {}  (line 147): the value,
\* or an exception when a .get is applied to something that is no dict.
ProjectUrlsOf(data) ==
    IF data.t # "object" THEN [exc |-> TRUE]
    ELSE LET info == data.info
         IN  IF info.t = "absent" THEN [exc |-> FALSE, val |-> [t |-> "object", members |-> <<>>]]
             ELSE IF info.t # "object" THEN [exc |-> TRUE]
             ELSE LET pu == info.project_urls
                  IN  IF pu.t = "absent" \/ ~Truthy(pu)
                      THEN [exc |-> FALSE, val |-> [t |-> "object", members |-> <<>>]]
                      ELSE [exc |-> FALSE, val |-> pu]

\* The try block of lines 143-149: "return" with the mapping, "raise" when a
\* statement of the block raises, "fall" when the block ends without return.
TryBlock(resp) ==
    IF resp.transport = "error" THEN [how |-> "raise"]
    ELSE IF resp.status_code # 200 THEN [how |-> "fall"]
    ELSE IF resp.body.t = "invalid" THEN [how |-> "raise"]
    ELSE LET pu == ProjectUrlsOf(resp.body)
         IN  IF pu.exc THEN [how |-> "raise"]
             ELSE IF pu.val.t # "object" THEN [how |-> "raise"]
             ELSE [how |-> "return", val |-> ItemsKept(pu.val.members)]

\* A version of the function whose except clause does not cover every error.
QueryUncaught(req, resp) ==
    IF req = "None" THEN [raised |-> FALSE, val |-> <<>>]
    ELSE LET b == TryBlock(resp)
         IN  CASE b.how = "return" -> [raised |-> FALSE, val |-> b.val]
               [] b.how = "raise"  -> [raised |-> resp.transport # "error", val |-> <<>>]
               [] b.how = "fall"   -> [raised |-> FALSE, val |-> <<>>]

\* The function for one outcome `resp` of the request: whether it raised to
\* its caller and the mapping it returned, as the list of its items.
query_pypi_project_urls(req, resp) ==
    IF req = "None" THEN [raised |-> FALSE, val |-> <<>>]
    ELSE LET b == TryBlock(resp)
         IN  CASE b.how = "return" -> [raised |-> FALSE, val |-> b.val]
               [] b.how = "raise"  -> [raised |-> FALSE, val |-> <<>>]
               [] b.how = "fall"   -> [raised |-> FALSE, val |-> <<>>]

-----------------------------------------------------------------------------
(* The results dictionary: a list of <<key, entries>> in insertion order *)

Keys(d) == {d[i][1] : i \in 1..Len(d)}

KeyIndex(d, k) == CHOOSE i \in 1..Len(d) : d[i][1] = k

\* d[k] of a defaultdict(list), read only.
Get(d, k) == IF k \in Keys(d) THEN d[KeyIndex(d, k)][2] ELSE <<>>

\* d[k].extend(entries): the key is created even when entries is empty.
Extend(d, k, entries) ==
    IF k \in Keys(d)
    THEN [d EXCEPT ![KeyIndex(d, k)] = <<k, @[2] \o entries>>]
    ELSE Append(d, <<k, entries>>)

InList(e, list) == \E i \in 1..Len(list) : list[i] = e

\* The loop written as d[k].extend(...): the key is always created.
ExtendAlways(d, k, entries) == Extend(d, k, entries)

\* A loop `for lbl, url in items: if test(lbl): d[k].append((lbl, url))`:
\* the key is created by the first append only.
ExtendIfAny(d, k, entries) ==
    IF entries = <<>> THEN d ELSE Extend(d, k, entries)

\* The entries the loop of lines 182-187 appends.
FallbackEntries(items) ==
    SelectSeq(items, LAMBDA it : LabelFilterFallback(it[1]))

\* The entries the loop of lines 215-220 appends.
ScanEntries(items) ==
    SelectSeq(items, LAMBDA it : LabelFilterScan(it[1]))

\* The loop of lines 194-201 without the membership test of line 200.
SupplementNoDedup(items, have) ==
    SelectSeq(items, LAMBDA it : LabelFilterSupplement(it[1]))

\* The entries the loop of lines 194-201 appends to a list `have`: the
\* membership test of line 200 sees the entries appended before it.
RECURSIVE SupplementEntries(_, _)
SupplementEntries(items, have) ==
    IF items = <<>> THEN <<>>
    ELSE LET it   == Head(items)
             take == LabelFilterSupplement(it[1]) /\ ~InList(it, have)
             new  == IF take THEN <<it>> ELSE <<>>
         IN  new \o SupplementEntries(Tail(items), have \o new)

-----------------------------------------------------------------------------
(* The installed distributions and the package index *)

Alpha == Chars("alpha")
Beta == Chars("beta")
Unknown == Chars("Unknown")
Names == {Alpha, Beta}

UrlGive1 == Chars("https://x.org/give?utm=1")
UrlGive2 == Chars("https://x.org/give?utm=2")
UrlHome == Chars("https://x.org")
UrlGive == Chars("https://x.org/give")

LabelFunding == Chars("Funding")
LabelHomepage == Chars("Homepage")
LabelDonate == Chars("Donate")

DeclFundA == Chars("Funding, https://x.org/give?utm=1")
DeclFundB == Chars("Funding, https://x.org/give?utm=2")
DeclHome == Chars("Homepage, https://x.org")

Absent == [t |-> "absent"]
JStr(s) == [t |-> "string", s |-> s]

\* A distribution: the name it is found under, its declared Name and Summary,
\* its Project-URL entries, and what raises when it is read ("metadata": the
\* metadata itself; "get_all": only the read of the Project-URL entries).
Dist(name, Name, Summary, project_urls, broken) ==
    [name |-> name, Name |-> Name, Summary |-> Summary,
     project_urls |-> project_urls, broken |-> broken]

DistSamples ==
    { Dist(Alpha, JStr(Alpha), Absent, <<DeclHome, DeclFundA>>, "no"),
      Dist(Beta, JStr(Beta), Absent, <<DeclFundB>>, "no"),
      Dist(Beta, JStr(Beta), Absent, <<>>, "no"),
      Dist(Alpha, JStr(Alpha), Absent, <<DeclFundA>>, "get_all"),
      Dist(Beta, JStr(Beta), Absent, <<DeclFundB>>, "metadata"),
      Dist(Beta, Absent, Absent, <<DeclFundA>>, "no") }

MaxNames == 2
MaxDists == 2

SeqsUpTo(S, n) == UNION {[1..k -> S] : k \in 0..n}

\* A decoded body {"info": {"project_urls": {...}}}.
Body(members) ==
    [t |-> "object",
     info |-> [t |-> "object",
               project_urls |-> [t |-> "object", members |-> members]]]

Response(transport, status_code, body) ==
    [transport |-> transport, status_code |-> status_code, body |-> body]

\* The outcomes of a request that a run of the program may meet.
MainResponses ==
    { Response("error", 0, [t |-> "invalid"]),
      Response("ok", 404, [t |-> "invalid"]),
      Response("ok", 200, Body(<< <<LabelFunding, JStr(UrlGive1)>>,
                                  <<LabelHomepage, JStr(UrlHome)>>,
                                  <<LabelDonate, JStr(UrlGive2)>> >>)) }

\* importlib_metadata.distribution(pkg): the first distribution found under
\* the name, PackageNotFoundError when there is none.
Installed(pkg) == \E i \in 1..Len(dists) : dists[i].name = pkg

distribution(pkg) ==
    dists[CHOOSE i \in 1..Len(dists) :
            dists[i].name = pkg /\ \A j \in 1..(i - 1) : dists[j].name # pkg]

\* dist.metadata.get("Name", dist.metadata.get("Summary", "Unknown"))
DistKey(dist) ==
    IF dist.Name.t # "absent" THEN dist.Name.s
    ELSE IF dist.Summary.t # "absent" THEN dist.Summary.s
    ELSE Unknown

Tags(entries, tag) == [i \in 1..Len(entries) |-> tag]

-----------------------------------------------------------------------------
(* The formatters: each returns the list of the lines of its string *)

\* sorted(results.items()): the keys are distinct, so the order is theirs.
RECURSIVE SortedItems(_)
SortedItems(d) ==
    IF d = <<>> THEN <<>>
    ELSE LET m == CHOOSE i \in 1..Len(d) :
                      \A j \in 1..Len(d) : j = i \/ StrLess(d[i][1], d[j][1])
         IN  <<d[m]>> \o SortedItems(SubSeq(d, 1, m - 1) \o SubSeq(d, m + 1, Len(d)))

StrIndent == Chars("  ")
StrColon == Chars(": ")
StrPackage == Chars("Package: ")
StrPlainHeader == Chars("--- Funding Information Found ---")
StrMarkdownHeader == Chars("# Funding Information") \o <<"\n">>
StrMarkdownNone == Chars("No funding links found.")
StrBullet == Chars("* **")
StrBulletColon == Chars("**: ")
StrHeading2 == Chars("## ")

\* Lines 234-240.
NoFundingMessage ==
    << Chars("No funding links found for any packages."),
       Chars("This could mean:"),
       Chars("  - No packages declare funding links in their metadata."),
       Chars("  - The packages use an older metadata format that doesn't support 'Project-URL'."),
       Chars("  - The funding links are present but use a different, unrecognised label.") >>

\* A URL without its query string and fragment: what precedes its first "?"
\* or "#".
StripQueryFragment(url) ==
    LET cut == {i \in 1..Len(url) : url[i] \in {"?", "#"}}
    IN  IF cut = {} THEN url
        ELSE SubSeq(url, 1, (CHOOSE i \in cut : \A j \in cut : i <= j) - 1)

\* The line of an entry with its URL cut to what precedes "?" or "#".
PlainEntryLineStripped(e) ==
    StrIndent \o e[1] \o StrColon \o StripQueryFragment(e[2])

PlainEntryLine(e) == StrIndent \o e[1] \o StrColon \o e[2]

\* "".join("-" for _ in range(30))
Dashes == [i \in 1..30 |-> "-"]

RECURSIVE PlainBlocks(_)
PlainBlocks(items) ==
    IF items = <<>> THEN <<>>
    ELSE LET pkg     == Head(items)[1]
             entries == Head(items)[2]
         IN  <<StrPackage \o pkg>>
             \o [i \in 1..Len(entries) |-> PlainEntryLine(entries[i])]
             \o <<Dashes>>
             \o PlainBlocks(Tail(items))

\* The formatter without its case for no results at all.
FormatPlainNoEmptyCase(d) ==
    <<StrPlainHeader>> \o PlainBlocks(SortedItems(d))

format_as_plain(d) ==
    IF d = <<>> THEN NoFundingMessage
    ELSE <<StrPlainHeader>> \o PlainBlocks(SortedItems(d))

MarkdownEntryLine(e) == StrBullet \o e[1] \o StrBulletColon \o e[2]

RECURSIVE MarkdownBlocks(_)
MarkdownBlocks(items) ==
    IF items = <<>> THEN <<>>
    ELSE LET pkg     == Head(items)[1]
             entries == Head(items)[2]
         IN  <<StrHeading2 \o pkg \o <<"\n">> >>
             \o [i \in 1..Len(entries) |-> MarkdownEntryLine(entries[i])]
             \o << <<>> >>
             \o MarkdownBlocks(Tail(items))

format_as_markdown(d) ==
    IF d = <<>> THEN <<StrMarkdownNone>>
    ELSE <<StrMarkdownHeader>> \o MarkdownBlocks(SortedItems(d))

\* json.dumps of a string: quotes, with the escapes of the characters that
\* need one.
JsonChar(c) ==
    CASE c = "\"" -> <<"\\", "\"">>
      [] c = "\\" -> <<"\\", "\\">>
      [] c = "\t" -> <<"\\", "t">>
      [] c = "\n" -> <<"\\", "n">>
      [] OTHER    -> <<c>>

RECURSIVE JsonEscape(_)
JsonEscape(s) == IF s = <<>> THEN <<>> ELSE JsonChar(Head(s)) \o JsonEscape(Tail(s))

JsonString(s) == <<"\"">> \o JsonEscape(s) \o <<"\"">>

\* A line followed by "," unless it is the last of its list.
Comma(isLast, line) == IF isLast THEN line ELSE line \o <<",">>

JsonOpenEntry == Chars("    {")
JsonCloseEntry == Chars("    }")
JsonLabelKey == Chars("      \"label\": ")
JsonUrlKey == Chars("      \"url\": ")
JsonEmptyList == Chars(": []")
JsonOpenList == Chars(": [")
JsonCloseList == Chars("  ]")
JsonEmpty == Chars("{}")
JsonOpen == Chars("{")
JsonClose == Chars("}")

JsonEntryLines(e, isLast) ==
    << JsonOpenEntry,
       JsonLabelKey \o JsonString(e[1]) \o <<",">>,
       JsonUrlKey \o JsonString(e[2]),
       Comma(isLast, JsonCloseEntry) >>

RECURSIVE JsonEntries(_)
JsonEntries(entries) ==
    IF entries = <<>> THEN <<>>
    ELSE JsonEntryLines(Head(entries), Len(entries) = 1) \o JsonEntries(Tail(entries))

RECURSIVE JsonItems(_)
JsonItems(items) ==
    IF items = <<>> THEN <<>>
    ELSE LET pkg     == Head(items)[1]
             entries == Head(items)[2]
             isLast  == Len(items) = 1
         IN  (IF entries = <<>>
              THEN <<Comma(isLast, StrIndent \o JsonString(pkg) \o JsonEmptyList)>>
              ELSE <<StrIndent \o JsonString(pkg) \o JsonOpenList>>
                   \o JsonEntries(entries)
                   \o <<Comma(isLast, JsonCloseList)>>)
             \o JsonItems(Tail(items))

\* json.dumps(jsonable, indent=2), the keys in the dictionary's own order.
format_as_json(d) ==
    IF d = <<>> THEN <<JsonEmpty>>
    ELSE <<JsonOpen>> \o JsonItems(d) \o <<JsonClose>>

-----------------------------------------------------------------------------
(* main() and gather_funding_info() *)

NoCall == [fn |-> "none"]
NoReturn == [done |-> FALSE]

Init ==
    /\ package_names \in SeqsUpTo(Names, MaxNames)
    /\ use_remote \in BOOLEAN
    /\ requests \in {"module", "None"}
    /\ dists \in SeqsUpTo(DistSamples, MaxDists)
    /\ pc = "gather"
    /\ idx = 1
    /\ results = <<>>
    /\ origin = <<>>
    /\ fetchLog = <<>>
    /\ pypi_urls = <<>>
    /\ printed = "nothing"
    /\ output = <<>>
    /\ call = NoCall
    /\ ret = NoReturn

\* The log after one more call: for which package, at which turn of the loop,
\* at which place of the code.
Fetched(pkg, site) ==
    Append(fetchLog, [pkg |-> pkg, idx |-> idx, site |-> site])

\* Lines 175-187: one named package, the local lookup and, when it is not
\* installed, the remote fallback.
NamedLookup ==
    /\ pc = "gather"
    /\ package_names # <<>>
    /\ idx <= Len(package_names)
    /\ LET pkg == package_names[idx]
       IN  IF Installed(pkg)
           THEN LET e == extract_funding_urls_from_dist(distribution(pkg))
                IN  /\ results' = Extend(results, pkg, e)
                    /\ origin' = Extend(origin, pkg, Tags(e, "local"))
                    /\ pc' = "supplement"
                    /\ UNCHANGED <<fetchLog, pypi_urls>>
           ELSE IF use_remote
           THEN \E resp \in MainResponses :
                    LET r == query_pypi_project_urls(requests, resp)
                        e == FallbackEntries(r.val)
                    IN  /\ fetchLog' = Fetched(pkg, "fallback")
                        /\ pypi_urls' = r.val
                        /\ IF r.raised
                           THEN pc' = "crashed" /\ UNCHANGED <<results, origin>>
                           ELSE /\ results' = ExtendIfAny(results, pkg, e)
                                /\ origin' = ExtendIfAny(origin, pkg, Tags(e, "remote"))
                                /\ pc' = "supplement"
           ELSE /\ pc' = "supplement"
                /\ UNCHANGED <<results, origin, fetchLog, pypi_urls>>
    /\ UNCHANGED <<package_names, use_remote, requests, dists, idx, printed,
                   output, call, ret>>

NextPosition == IF idx + 1 > Len(package_names) THEN "return" ELSE "gather"

\* Lines 192-201: the same package, the remote supplement.
NamedSupplement ==
    /\ pc = "supplement"
    /\ LET pkg == package_names[idx]
       IN  IF use_remote
           THEN \E resp \in MainResponses :
                    LET r == query_pypi_project_urls(requests, resp)
                        e == SupplementEntries(r.val, Get(results, pkg))
                    IN  /\ fetchLog' = Fetched(pkg, "supplement")
                        /\ pypi_urls' = r.val
                        /\ IF r.raised
                           THEN pc' = "crashed" /\ UNCHANGED <<results, origin, idx>>
                           ELSE /\ results' = ExtendIfAny(results, pkg, e)
                                /\ origin' = ExtendIfAny(origin, pkg, Tags(e, "remote"))
                                /\ idx' = idx + 1
                                /\ pc' = NextPosition
           ELSE /\ idx' = idx + 1
                /\ pc' = NextPosition
                /\ UNCHANGED <<results, origin, fetchLog, pypi_urls>>
    /\ UNCHANGED <<package_names, use_remote, requests, dists, printed, output,
                   call, ret>>

\* Lines 205-220: one installed distribution of the scan of all of them.
ScanDist ==
    /\ pc = "gather"
    /\ package_names = <<>>
    /\ idx <= Len(dists)
    /\ LET dist == dists[idx]
       IN  IF dist.broken = "metadata"
           THEN \* line 206 reads dist.metadata outside any try
                /\ pc' = "crashed"
                /\ UNCHANGED <<results, origin, fetchLog, pypi_urls, idx>>
           ELSE LET name == DistKey(dist)
                    funding_entries == extract_funding_urls_from_dist(dist)
                IN  IF use_remote /\ funding_entries = <<>>
                    THEN \E resp \in MainResponses :
                             LET r == query_pypi_project_urls(requests, resp)
                                 e == ScanEntries(r.val)
                             IN  /\ fetchLog' = Fetched(name, "scan")
                                 /\ pypi_urls' = r.val
                                 /\ IF r.raised
                                    THEN pc' = "crashed" /\ UNCHANGED <<results, origin, idx>>
                                    ELSE /\ results' = ExtendIfAny(results, name, e)
                                         /\ origin' = ExtendIfAny(origin, name, Tags(e, "remote"))
                                         /\ idx' = idx + 1
                                         /\ pc' = "gather"
                    ELSE /\ results' = ExtendIfAny(results, name, funding_entries)
                         /\ origin' = ExtendIfAny(origin, name, Tags(funding_entries, "local"))
                         /\ idx' = idx + 1
                         /\ pc' = "gather"
                         /\ UNCHANGED <<fetchLog, pypi_urls>>
    /\ UNCHANGED <<package_names, use_remote, requests, dists, printed, output,
                   call, ret>>

\* Line 221, at the end of the scan: return results.
ScanReturn ==
    /\ pc = "gather"
    /\ package_names = <<>>
    /\ idx > Len(dists)
    /\ pc' = "return"
    /\ UNCHANGED <<package_names, use_remote, requests, dists, idx, results,
                   origin, fetchLog, pypi_urls, printed, output, call, ret>>

\* Lines 340-345 of main(): print the results in the format that args.json
\* and args.markdown ask for; the two flags are read here only.
EmitReport ==
    /\ pc = "return"
    /\ \E json \in BOOLEAN, markdown \in BOOLEAN :
           IF json
           THEN output' = format_as_json(results) /\ printed' = "json"
           ELSE IF markdown
           THEN output' = format_as_markdown(results) /\ printed' = "markdown"
           ELSE output' = format_as_plain(results) /\ printed' = "plain"
    /\ pc' = "done"
    /\ UNCHANGED <<package_names, use_remote, requests, dists, idx, results,
                   origin, fetchLog, pypi_urls, call, ret>>

Next == NamedLookup \/ NamedSupplement \/ ScanDist \/ ScanReturn \/ EmitReport

Spec == Init /\ [][Next]_vars

-----------------------------------------------------------------------------
(* The functions applied on their own, to inputs drawn from bounded sets *)

\* The program itself is not running.
MainOff ==
    /\ package_names = <<>>
    /\ use_remote = FALSE
    /\ requests = "module"
    /\ dists = <<>>
    /\ pc = "off"
    /\ idx = 1
    /\ results = <<>>
    /\ origin = <<>>
    /\ fetchLog = <<>>
    /\ pypi_urls = <<>>
    /\ printed = "nothing"
    /\ output = <<>>

MaxLabelLen == 4
LabelAlphabet == {"f", "U", "n", "d", " "}

LabelSamples ==
    { Chars("Funding"), Chars("Sponsor this project"), Chars("Homepage"),
      Chars("Donate"), Chars("donation"), Chars("Donations"), Chars("Donate now"),
      Chars("FUND-ING"), Chars("S.p.o.n.s.o.r"), Chars("Refund policy"),
      Chars("GitHub Sponsors"), Chars("sponso"), Chars("Support"),
      Chars("Don-ate!"), Chars("  DONATION  "), Chars("Source") }

LabelInputs == LabelSamples \cup SeqsUpTo(LabelAlphabet, MaxLabelLen)

InitMatch ==
    /\ MainOff
    /\ call \in {[fn |-> "label_filter", arg |-> l] : l \in LabelInputs}
    /\ ret = NoReturn

\* An entry with the label and some URL, offered at each place that filters
\* labelled entries: which of them accept it.
ApplyLabelFilter ==
    /\ call.fn = "label_filter"
    /\ ~ret.done
    /\ LET it == <<call.arg, UrlHome>>
       IN  ret' = [done |-> TRUE,
                   local |-> ExtractEntry(call.arg \o <<",", " ">> \o UrlHome) # <<>>,
                   fallback |-> FallbackEntries(<<it>>) # <<>>,
                   supplement |-> SupplementEntries(<<it>>, <<>>) # <<>>,
                   scan |-> ScanEntries(<<it>>) # <<>>]
    /\ UNCHANGED <<mainVars, call>>

NextMatch == ApplyLabelFilter

SpecMatch == InitMatch /\ [][NextMatch]_vars

MaxDecls == 3

DeclSamples ==
    { Chars("Funding, https://example.com/give"),
      Chars("https://example.com/fund-us"),
      Chars("Homepage, https://example.com"),
      Chars("  Sponsor this project ,\thttps://s.io/a,b "),
      Chars(" https://EXAMPLE.com/SPONSORS "),
      Chars("https://example.com"),
      Chars(", https://fund.me"),
      Chars("Donations, https://example.com/donate") }

InitExtract ==
    /\ MainOff
    /\ call \in {[fn |-> "extract", arg |-> p] : p \in SeqsUpTo(DeclSamples, MaxDecls)}
    /\ ret = NoReturn

ApplyExtract ==
    /\ call.fn = "extract"
    /\ ~ret.done
    /\ ret' = [done |-> TRUE,
               value |-> extract_funding_urls_from_dist(
                             Dist(Alpha, JStr(Alpha), Absent, call.arg, "no"))]
    /\ UNCHANGED <<mainVars, call>>

NextExtract == ApplyExtract

SpecExtract == InitExtract /\ [][NextExtract]_vars

MaxMembers == 2

MemberKeys == {Chars("Funding"), Chars("Homepage"), <<>>}
MemberValues ==
    { JStr(UrlGive1), JStr(<<>>), [t |-> "null"], [t |-> "number", n |-> 0],
      [t |-> "number", n |-> 5] }

\* The members of a JSON object: its keys are distinct.
MemberLists ==
    {m \in SeqsUpTo(MemberKeys \X MemberValues, MaxMembers) :
        \A i, j \in 1..Len(m) : i # j => m[i][1] # m[j][1]}

ProjectUrlsValues ==
    {Absent, [t |-> "null"], [t |-> "array", len |-> 0], [t |-> "array", len |-> 1],
     JStr(UrlHome)}
    \cup {[t |-> "object", members |-> m] : m \in MemberLists}

InfoValues ==
    {Absent, [t |-> "null"], JStr(UrlHome)}
    \cup {[t |-> "object", project_urls |-> v] : v \in ProjectUrlsValues}

BodyValues ==
    {[t |-> "invalid"], [t |-> "array", len |-> 1]}
    \cup {[t |-> "object", info |-> v] : v \in InfoValues}

FetchResponses ==
    {Response("error", 0, [t |-> "invalid"])}
    \cup {Response("ok", c, b) : c \in {200, 404, 500}, b \in BodyValues}

InitFetch ==
    /\ MainOff
    /\ call \in {[fn |-> "query", req |-> q, arg |-> r] :
                    q \in {"module", "None"}, r \in FetchResponses}
    /\ ret = NoReturn

ApplyQuery ==
    /\ call.fn = "query"
    /\ ~ret.done
    /\ LET r == query_pypi_project_urls(call.req, call.arg)
       IN  ret' = [done |-> TRUE, raised |-> r.raised, value |-> r.val]
    /\ UNCHANGED <<mainVars, call>>

NextFetch == ApplyQuery

SpecFetch == InitFetch /\ [][NextFetch]_vars

-----------------------------------------------------------------------------
(* Properties of the functions *)

\* A label with every character outside [A-Za-z0-9] removed and the rest in
\* lower case, character by character.
TextFunding == Chars("funding")
TextSponsor == Chars("sponsor")
TextDonate == Chars("donate")
TextDonation == Chars("donation")
TextFund == Chars("fund")
TextGenericLink == Chars("Generic Link")
TextNoFunding == Chars("No funding links found")
TextHeader == Chars("--- Funding Information Found ---")
TextPackage == Chars("Package: ")
TextIndent == Chars("  ")
TextColon == Chars(": ")
ThirtyDashes == [n \in 1..30 |-> "-"]

RECURSIVE Normalised(_)
Normalised(label) ==
    IF label = <<>> THEN <<>>
    ELSE (IF IsAlnum(Head(label)) THEN <<LowerChar(Head(label))>> ELSE <<>>)
         \o Normalised(Tail(label))

HasPiece(s, piece) == \E i, j \in 1..Len(s) : SubSeq(s, i, j) = piece

\* The Funding Matcher on a label.
MatchesLabel(label) ==
    LET n == Normalised(label)
    IN  \/ n = TextFunding \/ n = TextSponsor
        \/ n = TextDonate \/ n = TextDonation
        \/ HasPiece(n, TextFund)
        \/ HasPiece(n, TextSponsor)

\* C6: a labelled entry is accepted as a funding link if and only if its
\* label, with every character outside [A-Za-z0-9] removed and in lower case,
\* is one of funding, sponsor, donate, donation or contains "fund" or
\* "sponsor"; every place that filters labelled entries (local declarations,
\* remote fallback, remote supplement, scan) applies this same test.
C6_SameMatcherEverywhere ==
    (ret.done /\ call.fn = "label_filter") =>
        /\ ret.local = MatchesLabel(call.arg)
        /\ ret.fallback = MatchesLabel(call.arg)
        /\ ret.supplement = MatchesLabel(call.arg)
        /\ ret.scan = MatchesLabel(call.arg)

C6_Witness ==
    /\ ret.done
    /\ call.fn = "label_filter"
    /\ call.arg = Chars("Sponsor this project")
    /\ ret.local /\ ret.fallback /\ ret.supplement /\ ret.scan

\* A string without its leading and trailing whitespace: the piece between
\* its first and its last character that is no whitespace.
Trimmed(s) ==
    LET ab == CHOOSE ab \in (1..(Len(s) + 1)) \X (0..Len(s)) :
                  /\ ab[1] <= ab[2] + 1
                  /\ \A i \in 1..(ab[1] - 1) : s[i] \in Whitespace
                  /\ \A i \in (ab[2] + 1)..Len(s) : s[i] \in Whitespace
                  /\ ab[1] <= ab[2] => s[ab[1]] \notin Whitespace /\ s[ab[2]] \notin Whitespace
    IN  SubSeq(s, ab[1], ab[2])

HasComma(d) == \E i \in 1..Len(d) : d[i] = ","

\* The pieces of a declaration before and after its first comma.
BeforeComma(d) == SubSeq(d, 1, FirstComma(d) - 1)
AfterComma(d) == SubSeq(d, FirstComma(d) + 1, Len(d))

\* Whether a declaration qualifies, and the entry it then gives.
Qualifies(d) ==
    IF HasComma(d) THEN MatchesLabel(Trimmed(BeforeComma(d)))
    ELSE \/ HasPiece(StrLower(d), TextFund)
         \/ HasPiece(StrLower(d), TextSponsor)

EntryOf(d) ==
    IF HasComma(d) THEN <<Trimmed(BeforeComma(d)), Trimmed(AfterComma(d))>>
    ELSE <<TextGenericLink, Trimmed(d)>>

\* C7: the Extractor's output is exactly the qualifying declarations, in
\* declaration order: a declaration with a comma is split once at its first
\* comma into a trimmed (label, url) and qualifies iff the label matches; one
\* without a comma qualifies iff it contains "fund" or "sponsor" in any case
\* and is given the label "Generic Link"; the others give no entry.
C7_ExtractorOutput ==
    (ret.done /\ call.fn = "extract") =>
        LET q == SelectSeq(call.arg, Qualifies)
        IN  /\ Len(ret.value) = Len(q)
            /\ \A i \in 1..Len(q) : ret.value[i] = EntryOf(q[i])

C7_Witness ==
    /\ ret.done
    /\ call.fn = "extract"
    /\ call.arg = << Chars("Homepage, https://example.com"),
                     Chars("  Sponsor this project ,\thttps://s.io/a,b "),
                     Chars("https://example.com/fund-us") >>
    /\ ret.value = << <<Chars("Sponsor this project"), Chars("https://s.io/a,b")>>,
                      <<Chars("Generic Link"), Chars("https://example.com/fund-us")>> >>

\* The outcomes of a request that give no usable info.project_urls object.
NoUsableProjectUrls(req, resp) ==
    \/ req = "None"
    \/ resp.transport = "error"
    \/ resp.status_code # 200
    \/ resp.body.t # "object"
    \/ resp.body.info.t # "object"
    \/ resp.body.info.project_urls.t # "object"

\* C3: query_pypi_project_urls never raises to its caller; when the HTTP
\* client is missing, the transport fails, the status is not 200, the body is
\* no valid JSON or holds no usable info.project_urls object, it returns an
\* empty mapping; on success every pair it returns has a non-empty label and a
\* non-empty URL.
C3_FetcherNeverRaises ==
    (ret.done /\ call.fn = "query") =>
        /\ ~ret.raised
        /\ NoUsableProjectUrls(call.req, call.arg) => ret.value = <<>>
        /\ \A i \in 1..Len(ret.value) :
               ret.value[i][1] # <<>> /\ ret.value[i][2] # <<>>

C3_Witness ==
    /\ ret.done
    /\ call.fn = "query"
    /\ call.req = "module"
    /\ call.arg.transport = "ok"
    /\ call.arg.status_code = 200
    /\ call.arg.body.t = "invalid"
    /\ ret.value = <<>>

-----------------------------------------------------------------------------
(* Properties of gather_funding_info, named packages *)

Returned == pc \in {"return", "done"}

PlainAsked == printed = "plain"

NamedMode == package_names # <<>>

\* The calls of the Fetcher made for the i-th name of the list.
CallsFor(i) == {k \in 1..Len(fetchLog) : fetchLog[k].idx = i}

CallsExpected(i) ==
    IF ~use_remote THEN 0
    ELSE IF Installed(package_names[i]) THEN 1
    ELSE 2

\* What the second invocation for a name does to the package's list: it only
\* appends, and what it appends are the matching pairs of the mapping it got
\* that the list did not hold yet, each once.
SupplementAppends(old, new, items) ==
    /\ Len(old) <= Len(new)
    /\ SubSeq(new, 1, Len(old)) = old
    /\ \A k \in (Len(old) + 1)..Len(new) :
           /\ InList(new[k], items)
           /\ MatchesLabel(new[k][1])
           /\ ~InList(new[k], SubSeq(new, 1, k - 1))
    /\ \A k \in 1..Len(items) : MatchesLabel(items[k][1]) => InList(items[k], new)

\* C8: in named-package mode the Fetcher is invoked, per name processed,
\* never when remote mode is disabled, exactly once when it is enabled and the
\* package is found locally, exactly twice when it is enabled and the package
\* is not found locally; the second invocation appends only matching pairs
\* not already present verbatim in the package's list.
C8_FetchesPerName ==
    [][ /\ NamedMode' =>
            \A i \in 1..Len(package_names') :
                i < idx' => Cardinality(CallsFor(i)') = CallsExpected(i)'
        /\ (NamedMode /\ use_remote /\ pc = "supplement" /\ pc' # "supplement") =>
            /\ Len(fetchLog') = Len(fetchLog) + 1
            /\ fetchLog'[Len(fetchLog')].site = "supplement"
            /\ SupplementAppends(Get(results, package_names[idx]),
                                 Get(results', package_names[idx]),
                                 pypi_urls') ]_vars

C8_Witness ==
    /\ pc = "done"
    /\ use_remote
    /\ package_names = <<Alpha, Beta>>
    /\ Installed(Alpha) /\ ~Installed(Beta)
    /\ Cardinality(CallsFor(1)) = 1
    /\ Cardinality(CallsFor(2)) = 2
    /\ Get(results, Alpha) = << <<LabelFunding, UrlGive1>>, <<LabelDonate, UrlGive2>> >>
    /\ Get(results, Beta) = << <<LabelFunding, UrlGive1>>, <<LabelDonate, UrlGive2>> >>


NoneInstalled == \A i \in 1..Len(package_names) : ~Installed(package_names[i])

\* C2: with named packages, remote disabled and none of the names installed,
\* gather_funding_info returns an empty results map (no key is created for
\* any name) and the plain-text output is the fixed explanatory message, which
\* contains "No funding links found".
C2_NothingInstalledNoRemote ==
    (NamedMode /\ ~use_remote /\ NoneInstalled) =>
        /\ results = <<>>
        /\ pc # "crashed"
        /\ (pc = "done" /\ PlainAsked) =>
               /\ Len(output) = 5
               /\ HasPiece(output[1], TextNoFunding)

C2_Witness ==
    /\ pc = "done"
    /\ PlainAsked
    /\ ~use_remote
    /\ package_names = <<Alpha, Beta>>
    /\ dists = <<>>
    /\ results = <<>>
    /\ Len(output) = 5

AllLists(d) == {d[i][2] : i \in 1..Len(d)}

\* C5: in every results map returned, no (label, url) pair occurs more than
\* once in one package's list.
C5_NoDuplicatePairs ==
    Returned =>
        \A list \in AllLists(results) :
            \A a, b \in 1..Len(list) : a < b => list[a] # list[b]

\* C9: in every package's list of the results map returned for named
\* packages with remote mode enabled, every entry obtained from local metadata
\* precedes every entry added from the remote index.
C9_LocalBeforeRemote ==
    (Returned /\ NamedMode /\ use_remote) =>
        \A from \in AllLists(origin) :
            \A a, b \in 1..Len(from) :
                a < b => ~(from[a] = "remote" /\ from[b] = "local")

-----------------------------------------------------------------------------
(* Properties of gather_funding_info, scan of all distributions *)

\* C4: in the scan of all installed packages an exception raised while
\* reading one package's metadata is never surfaced: gather_funding_info goes
\* on and returns normally.
C4_ScanNeverRaises ==
    ~NamedMode => pc # "crashed"

\* Whether the Extractor finds nothing in a distribution.
NothingLocal(dist) ==
    dist.broken # "no" \/ SelectSeq(dist.project_urls, Qualifies) = <<>>

\* C10: in the scan of all installed packages every key of the results map
\* has a non-empty list, and the Fetcher is queried for a package only when
\* remote mode is enabled and the Extractor found nothing for it.
C10_ScanKeysNonEmpty ==
    ~NamedMode =>
        /\ \A list \in AllLists(results) : list # <<>>
        /\ \A k \in 1..Len(fetchLog) :
               use_remote /\ NothingLocal(dists[fetchLog[k].idx])

C10_Witness ==
    /\ ~NamedMode
    /\ pc = "done"
    /\ use_remote
    /\ Len(dists) = 2
    /\ dists[1].project_urls = <<>>
    /\ Len(fetchLog) = 1
    /\ Keys(results) = {Alpha}

-----------------------------------------------------------------------------
(* Properties of the report *)

ReportLine(label, url) == TextIndent \o label \o TextColon \o url

\* The line of the report that opens the section of a package.
SectionAt(k) == CHOOSE p \in 1..Len(output) : output[p] = TextPackage \o k

\* Two packages whose lists hold the same label with URLs that differ only in
\* query string or fragment: the label and the URL without them.
SharedLinks ==
    {<<ea[1], StripQueryFragment(ea[2])>> :
        ea \in {x \in UNION {Range(l) : l \in AllLists(results)} :
                  \E i, j \in 1..Len(results) :
                      /\ i # j
                      /\ InList(x, results[i][2])
                      /\ \E y \in Range(results[j][2]) :
                             /\ y[1] = x[1]
                             /\ y[2] # x[2]
                             /\ StripQueryFragment(y[2]) = StripQueryFragment(x[2])}}

\* The lines of the report that show a link, its URL with or without its
\* query string and fragment.
LinesShowing(link) ==
    {p \in 1..Len(output) :
        \E l \in AllLists(results) : \E e \in Range(l) :
            /\ e[1] = link[1]
            /\ StripQueryFragment(e[2]) = link[2]
            /\ output[p] \in {ReportLine(e[1], e[2]), ReportLine(link[1], link[2])}}

====
